---- MODULE Spec2Model ----
(***************************************************************************)
(* One invocation of the EviCal command line (src/evical_cmd.py): one of   *)
(* the four click commands runs to completion.  The state is the command's *)
(* position, its arguments, the token file on disk, the in-memory          *)
(* credential, the remote calendar, and the trace of remote calls, prompts *)
(* and printed lines.                                                      *)
(***************************************************************************)
EXTENDS Integers, Sequences, FiniteSets, TLC

VARIABLES
    pc,         \* position of the command handler
    cmd,        \* the command invoked
    args,       \* its arguments: [num, year, month, start, end, id]
    tz,         \* the local time zone of the process
    tokenFile,  \* token.json on disk
    loaded,     \* the credential as loaded from token.json (line 26)
    decided,    \* the test of line 27/28 has been evaluated
    creds,      \* the local variable creds of _create_service
    service,    \* the value returned by _create_service
    remote,     \* ids of the events the calendar service holds
    event,      \* the record fetched by delete_event's get (line 153)
    query,      \* timeMin/timeMax of list_events_for_month's list call
    calls,      \* remote calls issued so far, in order: [op, ok]
    prompted,   \* click.confirm has been shown
    answer,     \* the user's answer to click.confirm
    out,        \* lines printed so far: [msg, start, title]
    exc         \* the exception that left the handler, "none" if none

vars == <<pc, cmd, args, tz, tokenFile, loaded, decided, creds, service,
          remote, event, query, calls, prompted, answer, out, exc>>

----------------------------------------------------------------------------
(* Bounds of the inputs *)

MaxMonthInput == 13     \* --month values tried: 0 .. MaxMonthInput
MaxNum == 2             \* num values tried: 1 .. MaxNum

(* datetime.MINYEAR / datetime.MAXYEAR of the datetime type imported on line 4 *)
MINYEAR == 1
MAXYEAR == 9999

YearInputs == {2023, 2024, MAXYEAR}
MonthInputs == 0..MaxMonthInput
NumInputs == 1..MaxNum
IdInputs == {"e1", "e2"}
TzInputs == {"UTC", "DST"}

----------------------------------------------------------------------------
(* datetime arithmetic, as the datetime module computes it *)

MsPerDay == 24 * 60 * 60 * 1000

IsLeap(y) == (y % 4 = 0) /\ ((y % 100 # 0) \/ (y % 400 = 0))

DaysInMonth(y, m) ==
    IF m = 2 THEN (IF IsLeap(y) THEN 29 ELSE 28)
    ELSE IF m \in {4, 6, 9, 11} THEN 30 ELSE 31

DaysBeforeYear(y) ==
    (y - 1) * 365 + ((y - 1) \div 4) - ((y - 1) \div 100) + ((y - 1) \div 400)

RECURSIVE DaysBeforeMonth(_, _)
DaysBeforeMonth(y, m) ==
    IF m <= 1 THEN 0 ELSE DaysBeforeMonth(y, m - 1) + DaysInMonth(y, m - 1)

Ymd2ord(y, m, d) == DaysBeforeYear(y) + DaysBeforeMonth(y, m) + d

\* datetime(year, month, day) raises ValueError outside these ranges
DatetimeOk(y, m, d) ==
    /\ y \in MINYEAR..MAXYEAR
    /\ m \in 1..12
    /\ d \in 1..DaysInMonth(y, m)

\* utcoffset, in minutes, that astimezone() attaches to local midnight of (y, m, 1)
LocalOffset(zone, y, m) ==
    IF zone = "UTC" THEN 0
    ELSE IF m \in 4..10 THEN 120 ELSE 60

\* datetime(y, m, 1).astimezone(): local midnight with the local offset attached
MonthStart(zone, y, m) ==
    [ord |-> Ymd2ord(y, m, 1), ms |-> 0, off |-> LocalOffset(zone, y, m)]

\* dt - timedelta(milliseconds=1): field arithmetic, the offset is kept
MinusOneMs(dt) ==
    IF dt.ms = 0
    THEN [ord |-> dt.ord - 1, ms |-> MsPerDay - 1, off |-> dt.off]
    ELSE [ord |-> dt.ord, ms |-> dt.ms - 1, off |-> dt.off]

NoDatetime == [ord |-> 0, ms |-> 0, off |-> 0]

\* variant of NextMonth: December rolls the month over but not the year
NextMonth_SameYear(y, m) ==
    IF m < 12 THEN <<y, m + 1>> ELSE <<y, 1>>

\* lines 93-97: the month following (y, m)
NextMonth(y, m) ==
    IF m < 12 THEN <<y, m + 1>> ELSE <<y + 1, 1>>

\* variant of MonthValid: the lower bound is off by one
MonthValid_FromZero(m) == m >= 0 /\ m <= 12

\* line 87: assert(month >= 1 and month <= 12)
MonthValid(m) == m >= 1 /\ m <= 12

----------------------------------------------------------------------------
(* --start_datetime / --end_datetime strings and strptime *)

\* a string is described by whether it has the shape of '%Y-%m-%d %H:%M'
\* and by the numbers in its fields
DateStrings ==
    { [fmt |-> TRUE,  y |-> 2022, mo |-> 10, d |-> 10, h |-> 18, mi |-> 0],
      [fmt |-> TRUE,  y |-> 2022, mo |-> 10, d |-> 10, h |-> 19, mi |-> 0],
      [fmt |-> FALSE, y |-> 2022, mo |-> 10, d |-> 10, h |-> 18, mi |-> 0],
      [fmt |-> TRUE,  y |-> 2022, mo |-> 2,  d |-> 30, h |-> 18, mi |-> 0],
      [fmt |-> TRUE,  y |-> 2022, mo |-> 10, d |-> 10, h |-> 24, mi |-> 0] }

NoString == [fmt |-> FALSE, y |-> 0, mo |-> 0, d |-> 0, h |-> 0, mi |-> 0]

\* datetime.strptime(s, '%Y-%m-%d %H:%M') returns a value (TRUE) or raises ValueError
StrptimeOk(s) ==
    /\ s.fmt
    /\ DatetimeOk(s.y, s.mo, s.d)
    /\ s.h \in 0..23
    /\ s.mi \in 0..59

----------------------------------------------------------------------------
(* Credentials *)

NoneCreds == [present |-> FALSE, token |-> "None", refresh_token |-> FALSE,
              expiry |-> "none"]

\* contents of token.json that parse as an authorized-user file
FileCreds ==
    [present : {TRUE}, token : {"None", "t_file"}, refresh_token : BOOLEAN,
     expiry : {"none", "past", "future"}]

TokenFiles ==
    {[state |-> "absent", creds |-> NoneCreds],
     [state |-> "corrupt", creds |-> NoneCreds]}
      \cup {[state |-> "ok", creds |-> c] : c \in FileCreds}

\* Credentials.expired / Credentials.valid
Expired(c) == c.expiry = "past"
Valid(c) == c.token # "None" /\ ~Expired(c)

\* line 27: not creds or not creds.valid
NeedsAcquire(c) == ~c.present \/ ~Valid(c)

\* variant of CanRefresh: the refresh token is not looked at
CanRefresh_AnyExpired(c) == c.present /\ Expired(c)

\* line 28: creds and creds.expired and creds.refresh_token
CanRefresh(c) == c.present /\ Expired(c) /\ c.refresh_token

\* creds.refresh(Request()) on success
Refreshed(c) == [c EXCEPT !.token = "t_refreshed", !.expiry = "future"]

\* flow.run_local_server(port=0) on success
ConsentCreds == [present |-> TRUE, token |-> "t_consent", refresh_token |-> TRUE,
                 expiry |-> "future"]

\* lines 34-35: token.write(creds.to_json())
WriteToken(c) == [state |-> "ok", creds |-> c]

----------------------------------------------------------------------------
(* Traces *)

Call(op, ok) == [op |-> op, ok |-> ok]
Line(msg, start, title) == [msg |-> msg, start |-> start, title |-> title]
Msg(msg) == Line(msg, "", "")

NoEvent == [id |-> "", start |-> "", summary |-> ""]

\* the record the calendar service returns for an id it holds
RemoteEvent(id) == [id |-> id, start |-> "start_" \o id, summary |-> "title_" \o id]

NoArgs == [num |-> 0, year |-> 0, month |-> 0, start |-> NoString,
           end |-> NoString, id |-> ""]

ArgInputs(c) ==
    IF c = "list_upcoming" THEN {[NoArgs EXCEPT !.num = n] : n \in NumInputs}
    ELSE IF c = "list_month"
         THEN {[NoArgs EXCEPT !.year = y, !.month = m] :
                   y \in YearInputs, m \in MonthInputs}
    ELSE IF c = "add_event"
         THEN {[NoArgs EXCEPT !.start = s, !.end = e] :
                   s \in DateStrings, e \in DateStrings}
    ELSE {[NoArgs EXCEPT !.id = i] : i \in IdInputs}

Commands == {"list_upcoming", "list_month", "add_event", "delete_event"}

Init ==
    /\ pc = "start"
    /\ cmd \in Commands
    /\ args \in ArgInputs(cmd)
    /\ tz \in (IF cmd = "list_month" THEN TzInputs ELSE {"UTC"})
    /\ tokenFile \in TokenFiles
    /\ loaded = NoneCreds
    /\ decided = FALSE
    /\ creds = NoneCreds
    /\ service = "unset"
    /\ remote = {"e1"}
    /\ event = NoEvent
    /\ query = [timeMin |-> NoDatetime, timeMax |-> NoDatetime]
    /\ calls = <<>>
    /\ prompted = FALSE
    /\ answer = "none"
    /\ out = <<>>
    /\ exc = "none"

\* the handler is left by an exception
Raise(e) == pc' = "done" /\ exc' = e

----------------------------------------------------------------------------
(* _create_service, lines 23-40 *)

\* lines 24-26: creds = None; load token.json when it exists
LoadToken ==
    /\ pc = "load"
    /\ IF tokenFile.state = "absent"
       THEN /\ creds' = NoneCreds
            /\ loaded' = NoneCreds
            /\ pc' = "check"
            /\ exc' = exc
       ELSE IF tokenFile.state = "corrupt"
       THEN /\ Raise("ValueError")
            /\ UNCHANGED <<creds, loaded>>
       ELSE /\ creds' = tokenFile.creds
            /\ loaded' = tokenFile.creds
            /\ pc' = "check"
            /\ exc' = exc
    /\ UNCHANGED <<cmd, args, tz, tokenFile, decided, service, remote, event,
                   query, calls, prompted, answer, out>>

\* lines 27-30: choice between returning, refreshing and the consent flow
CheckCreds ==
    /\ pc = "check"
    /\ decided' = TRUE
    /\ pc' = IF ~NeedsAcquire(creds) THEN "build"
             ELSE IF CanRefresh(creds) THEN "refresh"
             ELSE "consent"
    /\ UNCHANGED <<cmd, args, tz, tokenFile, loaded, creds, service, remote,
                   event, query, calls, prompted, answer, out, exc>>

\* line 29: creds.refresh(Request()); RefreshError leaves the handler
Refresh ==
    /\ pc = "refresh"
    /\ \E ok \in BOOLEAN :
        /\ calls' = Append(calls, Call("refresh", ok))
        /\ IF ok
           THEN /\ creds' = Refreshed(creds)
                /\ pc' = "build"
                /\ exc' = exc
           ELSE /\ Raise("RefreshError")
                /\ creds' = creds
    /\ UNCHANGED <<cmd, args, tz, tokenFile, loaded, decided, service, remote,
                   event, query, prompted, answer, out>>

\* lines 31-35: consent flow, then token.json is written
Consent ==
    /\ pc = "consent"
    /\ \E ok \in BOOLEAN :
        /\ calls' = Append(calls, Call("consent", ok))
        /\ IF ok
           THEN /\ creds' = ConsentCreds
                /\ tokenFile' = WriteToken(ConsentCreds)
                /\ pc' = "build"
                /\ exc' = exc
           ELSE /\ Raise("AuthError")
                /\ UNCHANGED <<creds, tokenFile>>
    /\ UNCHANGED <<cmd, args, tz, loaded, decided, service, remote, event,
                   query, prompted, answer, out>>

\* lines 37-40: build(); an HttpError is printed and None is returned
BuildService ==
    /\ pc = "build"
    /\ \E ok \in BOOLEAN :
        /\ calls' = Append(calls, Call("build", ok))
        /\ IF ok
           THEN /\ service' = "service"
                /\ out' = out
           ELSE /\ service' = "None"
                /\ out' = Append(out, Msg("An error occurred"))
    /\ pc' = "body"
    /\ UNCHANGED <<cmd, args, tz, tokenFile, loaded, decided, creds, remote,
                   event, query, prompted, answer, exc>>

----------------------------------------------------------------------------
(* list_upcoming_events, lines 59-79 *)

\* line 60: service = _create_service()
ListUpcomingEnter ==
    /\ pc = "start"
    /\ cmd = "list_upcoming"
    /\ pc' = "load"
    /\ UNCHANGED <<cmd, args, tz, tokenFile, loaded, decided, creds, service,
                   remote, event, query, calls, prompted, answer, out, exc>>

\* the rows of a list response: lines 69-76 and 106-113
ListResult(ok, items) ==
    IF ~ok THEN <<Msg("An error occurred")>>
    ELSE IF items = {} THEN <<Msg("No upcoming events found.")>>
    ELSE <<Msg("table")>>

\* variant of ListUpcomingCall: a failed list call is issued a second time
ListUpcomingCall_Retry ==
    /\ pc = "body"
    /\ cmd = "list_upcoming"
    /\ service # "None"
    /\ \E ok \in BOOLEAN :
        /\ calls' = Append(calls, Call("list", ok))
        /\ out' = out \o ListResult(ok, {})
        /\ pc' = IF ok \/ (calls # <<>> /\ calls[Len(calls)].op = "list")
                 THEN "done" ELSE "body"
    /\ UNCHANGED <<cmd, args, tz, tokenFile, loaded, decided, creds, service,
                   remote, event, query, prompted, answer, exc>>

\* lines 61-79: the list call; only HttpError is caught
ListUpcomingCall ==
    /\ pc = "body"
    /\ cmd = "list_upcoming"
    /\ IF service = "None"
       THEN /\ Raise("AttributeError")
            /\ out' = Append(out, Msg("Getting the upcoming events"))
            /\ calls' = calls
       ELSE \E ok \in BOOLEAN, items \in SUBSET remote :
            /\ calls' = Append(calls, Call("list", ok))
            /\ out' = Append(out, Msg("Getting the upcoming events"))
                        \o ListResult(ok, items)
            /\ pc' = "done"
            /\ exc' = exc
    /\ UNCHANGED <<cmd, args, tz, tokenFile, loaded, decided, creds, service,
                   remote, event, query, prompted, answer>>

----------------------------------------------------------------------------
(* list_events_for_month, lines 86-115 *)

\* lines 87-89: the assertion, then service = _create_service()
ListMonthEnter ==
    /\ pc = "start"
    /\ cmd = "list_month"
    /\ IF MonthValid(args.month)
       THEN pc' = "load" /\ exc' = exc
       ELSE Raise("AssertionError")
    /\ UNCHANGED <<cmd, args, tz, tokenFile, loaded, decided, creds, service,
                   remote, event, query, calls, prompted, answer, out>>

\* lines 91-100: start_date, month rollover, end_date; datetime() may raise
ListMonthRange ==
    /\ pc = "body"
    /\ cmd = "list_month"
    /\ LET nm == NextMonth(args.year, args.month)
       IN IF DatetimeOk(args.year, args.month, 1) /\ DatetimeOk(nm[1], nm[2], 1)
          THEN /\ query' = [timeMin |-> MonthStart(tz, args.year, args.month),
                            timeMax |-> MinusOneMs(MonthStart(tz, nm[1], nm[2]))]
               /\ out' = Append(out, Msg("Getting the events in"))
               /\ pc' = "list"
               /\ exc' = exc
          ELSE /\ Raise("ValueError")
               /\ UNCHANGED <<query, out>>
    /\ UNCHANGED <<cmd, args, tz, tokenFile, loaded, decided, creds, service,
                   remote, event, calls, prompted, answer>>

\* lines 101-115: the list call; only HttpError is caught
ListMonthCall ==
    /\ pc = "list"
    /\ IF service = "None"
       THEN /\ Raise("AttributeError")
            /\ UNCHANGED <<calls, out>>
       ELSE \E ok \in BOOLEAN, items \in SUBSET remote :
            /\ calls' = Append(calls, Call("list", ok))
            /\ out' = out \o ListResult(ok, items)
            /\ pc' = "done"
            /\ exc' = exc
    /\ UNCHANGED <<cmd, args, tz, tokenFile, loaded, decided, creds, service,
                   remote, event, query, prompted, answer>>

----------------------------------------------------------------------------
(* add_event, lines 125-146 *)

\* line 126: service = _create_service()
AddEventEnter ==
    /\ pc = "start"
    /\ cmd = "add_event"
    /\ pc' = "load"
    /\ UNCHANGED <<cmd, args, tz, tokenFile, loaded, decided, creds, service,
                   remote, event, query, calls, prompted, answer, out, exc>>

\* lines 127-128: strptime of both strings; ValueError leaves the handler
AddEventParse ==
    /\ pc = "body"
    /\ cmd = "add_event"
    /\ IF StrptimeOk(args.start) /\ StrptimeOk(args.end)
       THEN pc' = "insert" /\ exc' = exc
       ELSE Raise("ValueError")
    /\ UNCHANGED <<cmd, args, tz, tokenFile, loaded, decided, creds, service,
                   remote, event, query, calls, prompted, answer, out>>

\* variant of AddEventInsert: the created event is read back with a get
AddEventInsert_ReadBack ==
    /\ pc = "insert"
    /\ service # "None"
    /\ calls' = calls \o <<Call("insert", TRUE), Call("get", TRUE)>>
    /\ remote' = remote \cup {"new"}
    /\ out' = Append(out, Msg("Event created successfully"))
    /\ pc' = "done"
    /\ UNCHANGED <<cmd, args, tz, tokenFile, loaded, decided, creds, service,
                   event, query, prompted, answer, exc>>

\* lines 145-146: the insert call, outside any try
AddEventInsert ==
    /\ pc = "insert"
    /\ IF service = "None"
       THEN /\ Raise("AttributeError")
            /\ UNCHANGED <<calls, out, remote>>
       ELSE \E ok \in BOOLEAN :
            /\ calls' = Append(calls, Call("insert", ok))
            /\ IF ok
               THEN /\ remote' = remote \cup {"new"}
                    /\ out' = Append(out, Msg("Event created successfully"))
                    /\ pc' = "done"
                    /\ exc' = exc
               ELSE /\ Raise("HttpError")
                    /\ UNCHANGED <<remote, out>>
    /\ UNCHANGED <<cmd, args, tz, tokenFile, loaded, decided, creds, service,
                   event, query, prompted, answer>>

----------------------------------------------------------------------------
(* delete_event, lines 151-158 *)

\* line 152: service = _create_service()
DeleteEventEnter ==
    /\ pc = "start"
    /\ cmd = "delete_event"
    /\ pc' = "load"
    /\ UNCHANGED <<cmd, args, tz, tokenFile, loaded, decided, creds, service,
                   remote, event, query, calls, prompted, answer, out, exc>>

\* variant of DeleteGet: a failed get is swallowed and the prompt is shown
DeleteGet_Swallow ==
    /\ pc = "body"
    /\ cmd = "delete_event"
    /\ service # "None"
    /\ \E ok \in (IF args.id \in remote THEN BOOLEAN ELSE {FALSE}) :
        /\ calls' = Append(calls, Call("get", ok))
        /\ event' = IF ok THEN RemoteEvent(args.id) ELSE event
        /\ pc' = "confirm"
    /\ UNCHANGED <<cmd, args, tz, tokenFile, loaded, decided, creds, service,
                   remote, query, prompted, answer, out, exc>>

\* line 153: the get call, outside any try; fails when the id is unknown
DeleteGet ==
    /\ pc = "body"
    /\ cmd = "delete_event"
    /\ IF service = "None"
       THEN /\ Raise("AttributeError")
            /\ UNCHANGED <<calls, event>>
       ELSE \E ok \in (IF args.id \in remote THEN BOOLEAN ELSE {FALSE}) :
            /\ calls' = Append(calls, Call("get", ok))
            /\ IF ok
               THEN /\ event' = RemoteEvent(args.id)
                    /\ pc' = "confirm"
                    /\ exc' = exc
               ELSE /\ Raise("HttpError")
                    /\ event' = event
    /\ UNCHANGED <<cmd, args, tz, tokenFile, loaded, decided, creds, service,
                   remote, query, prompted, answer, out>>

\* variant of DeleteConfirm: the answer is read but not branched on
DeleteConfirm_Ignored ==
    /\ pc = "confirm"
    /\ prompted' = TRUE
    /\ \E a \in {"yes", "no"} : answer' = a
    /\ pc' = "delete"
    /\ UNCHANGED <<cmd, args, tz, tokenFile, loaded, decided, creds, service,
                   remote, event, query, calls, out, exc>>

\* lines 154, 157-158: click.confirm and the branch on its answer
DeleteConfirm ==
    /\ pc = "confirm"
    /\ prompted' = TRUE
    /\ \E a \in {"yes", "no"} :
        /\ answer' = a
        /\ IF a = "yes"
           THEN /\ pc' = "delete"
                /\ out' = out
           ELSE /\ pc' = "done"
                /\ out' = Append(out, Msg("You did not delete the event."))
    /\ UNCHANGED <<cmd, args, tz, tokenFile, loaded, decided, creds, service,
                   remote, event, query, calls, exc>>

\* lines 155-156: the delete call, then the status line built from `event`
DeleteCall ==
    /\ pc = "delete"
    /\ \E ok \in BOOLEAN :
        /\ calls' = Append(calls, Call("delete", ok))
        /\ IF ok
           THEN /\ remote' = remote \ {args.id}
                /\ out' = Append(out, Line("Event has been deleted successfully",
                                           event.start, event.summary))
                /\ pc' = "done"
                /\ exc' = exc
           ELSE /\ Raise("HttpError")
                /\ UNCHANGED <<remote, out>>
    /\ UNCHANGED <<cmd, args, tz, tokenFile, loaded, decided, creds, service,
                   event, query, prompted, answer>>

----------------------------------------------------------------------------

Next ==
    \/ LoadToken
    \/ CheckCreds
    \/ Refresh
    \/ Consent
    \/ BuildService
    \/ ListUpcomingEnter
    \/ ListUpcomingCall
    \/ ListMonthEnter
    \/ ListMonthRange
    \/ ListMonthCall
    \/ AddEventEnter
    \/ AddEventParse
    \/ AddEventInsert
    \/ DeleteEventEnter
    \/ DeleteGet
    \/ DeleteConfirm
    \/ DeleteCall

Spec == Init /\ [][Next]_vars

----------------------------------------------------------------------------
(* Vocabulary of the properties *)

Ops(S) == {i \in 1..Len(calls) : calls[i].op \in S}
Issued(op) == Ops({op}) # {}
Succeeded(op) == \E i \in Ops({op}) : calls[i].ok
Failed(op) == \E i \in Ops({op}) : ~calls[i].ok
Printed(msg) == \E i \in 1..Len(out) : out[i].msg = msg

CalendarOps == {"list", "insert", "get", "delete"}
RemoteOps == CalendarOps \cup {"refresh"}
CredentialOps == {"refresh", "consent", "build"}
RoundTrips == Cardinality(Ops(CalendarOps))

TypeOK ==
    /\ pc \in {"start", "load", "check", "refresh", "consent", "build", "body",
               "list", "insert", "confirm", "delete", "done"}
    /\ cmd \in Commands
    /\ exc \in {"none", "ValueError", "AssertionError", "RefreshError",
                "AuthError", "AttributeError", "HttpError"}
    /\ service \in {"unset", "None", "service"}

----------------------------------------------------------------------------
(* Properties *)

Done == pc = "done"
LastLine == out[Len(out)]
ArgsParse == StrptimeOk(args.start) /\ StrptimeOk(args.end)

\* C1: in delete-event the delete call is issued only after the get call for
\* the same id succeeded and the user answered yes; after a "no" no delete
\* call is issued and the command ends with 'You did not delete the event.';
\* after a performed delete the status line carries the start and title of
\* the record the get fetched.
C1_DeleteGuarded ==
    /\ \A j \in Ops({"delete"}) :
          /\ cmd = "delete_event"
          /\ prompted /\ answer = "yes"
          /\ \E i \in Ops({"get"}) : i < j /\ calls[i].ok
          /\ event = RemoteEvent(args.id)
    /\ answer = "no" =>
          /\ ~Issued("delete")
          /\ Done /\ exc = "none"
          /\ LastLine = Msg("You did not delete the event.")
    /\ Succeeded("delete") =>
          /\ Done /\ exc = "none"
          /\ LastLine = Line("Event has been deleted successfully",
                             RemoteEvent(args.id).start,
                             RemoteEvent(args.id).summary)

C1_Witness_DeletedAfterYes ==
    Done /\ Succeeded("delete") /\ answer = "yes" /\ Succeeded("get")

\* C2: every failed calendar call of any of the four commands is caught in
\* the handler: the command ends with a printed message and no exception
\* leaves the handler.
C2_RemoteFailureCaught ==
    (Done /\ \E i \in Ops(CalendarOps) : ~calls[i].ok) =>
        (exc = "none" /\ Printed("An error occurred"))

\* the first instant of the month following (y, m), written out by cases
FollowingStart(zone, y, m) ==
    IF m = 12 THEN MonthStart(zone, y + 1, 1) ELSE MonthStart(zone, y, m + 1)

RangeAsClaimed ==
    /\ Issued("list")
    /\ query.timeMin = MonthStart(tz, args.year, args.month)
    /\ query.timeMax.off = FollowingStart(tz, args.year, args.month).off
    /\ IF query.timeMax.ms = MsPerDay - 1
       THEN /\ query.timeMax.ord + 1 = FollowingStart(tz, args.year, args.month).ord
            /\ FollowingStart(tz, args.year, args.month).ms = 0
       ELSE /\ query.timeMax.ord = FollowingStart(tz, args.year, args.month).ord
            /\ query.timeMax.ms + 1 = FollowingStart(tz, args.year, args.month).ms

ListMonthRan ==
    Done /\ cmd = "list_month" /\ args.month \in 1..12 /\ service = "service"

\* C3 as stated: for every year and every month in 1..12, list-month queries
\* the range from the first instant of (year, month) to the first instant of
\* the following month minus one millisecond.
C3_RangeForEveryYear ==
    ListMonthRan => RangeAsClaimed

\* C3 amended: the same, for every (year, month) whose following month starts
\* in a year the datetime type can represent; list-month of December of
\* MAXYEAR raises ValueError and queries nothing.
C3_RangeWithinDatetime ==
    /\ (ListMonthRan /\ args.year \in MINYEAR..MAXYEAR
            /\ ~(args.year = MAXYEAR /\ args.month = 12)) => RangeAsClaimed
    /\ (ListMonthRan /\ args.year = MAXYEAR /\ args.month = 12) =>
            (exc = "ValueError" /\ ~Issued("list"))

C3_Witness_DecemberRollover ==
    ListMonthRan /\ args.month = 12 /\ args.year < MAXYEAR /\ Issued("list")
        /\ tz = "DST"

\* C4: list-month with a month outside 1..12 fails with the assertion before
\* the token is loaded, before refresh or consent and before any remote call.
C4_BadMonthFailsFirst ==
    (cmd = "list_month" /\ args.month \notin 1..12) =>
        /\ pc \in {"start", "done"}
        /\ Done => exc = "AssertionError"
        /\ calls = <<>>
        /\ ~decided /\ service = "unset" /\ creds = NoneCreds

C4_Witness_BadMonthRejected ==
    cmd = "list_month" /\ args.month \in {0, 13} /\ Done
        /\ tokenFile.state = "ok"

\* C5: add-event with a start or end that does not parse fails with
\* ValueError before any network step: no refresh, no consent, no service
\* construction, no insert.
C5_BadDateFailsFirst ==
    (cmd = "add_event" /\ ~ArgsParse) =>
        /\ calls = <<>>
        /\ service = "unset"
        /\ Done => exc = "ValueError"

\* C6: delete-event whose get fails because the id does not exist ends in the
\* get's error, never shows the prompt and never issues the delete call.
C6_MissingIdNoPrompt ==
    /\ (Issued("get") /\ args.id \notin remote /\ ~Succeeded("delete")) =>
          Failed("get")
    /\ Failed("get") =>
          /\ cmd = "delete_event"
          /\ Done /\ exc = "HttpError"
          /\ ~prompted /\ answer = "none"
          /\ ~Issued("delete")

C6_Witness_GetFailed ==
    cmd = "delete_event" /\ args.id \notin remote /\ Failed("get") /\ Done

\* C7 as stated: every invocation, on every path, performs exactly one round
\* trip to the calendar service (consent and refresh not counted).
C7_ExactlyOneRoundTrip ==
    Done => RoundTrips = 1

\* C7 amended: an invocation that ends without an exception performs exactly
\* one round trip, except a confirmed delete-event, which performs two (get,
\* then delete); no invocation performs more than that.
C7_RoundTripsPerCommand ==
    /\ RoundTrips <= (IF cmd = "delete_event" /\ answer = "yes" THEN 2 ELSE 1)
    /\ (Done /\ exc = "none") =>
          RoundTrips = (IF cmd = "delete_event" /\ answer = "yes" THEN 2 ELSE 1)

C7_Witness_TwoRoundTrips ==
    Done /\ exc = "none" /\ cmd = "delete_event" /\ RoundTrips = 2

\* C8: whenever acquisition created a token by consent or refreshed an
\* expired one, token.json holds the credential in use once acquisition is
\* complete.
C8_TokenFilePersisted ==
    (service # "unset" /\ (Succeeded("refresh") \/ Succeeded("consent"))) =>
        tokenFile = WriteToken(creds)

\* C9: acquisition takes exactly one path, chosen from the loaded state:
\* loaded and valid: neither refresh nor consent; loaded, expired, with a
\* refresh token: refresh and no consent; otherwise: consent, no refresh, and
\* the credential it yields is written to token.json.  Refresh and consent
\* never both occur.
C9_OnePath ==
    LET valid == loaded.present /\ loaded.token # "None" /\ loaded.expiry # "past"
        refreshable == loaded.present /\ ~valid /\ loaded.expiry = "past"
                          /\ loaded.refresh_token
        chosen == decided /\ pc \notin {"refresh", "consent"}
    IN /\ ~(Issued("refresh") /\ Issued("consent"))
       /\ ~decided => (~Issued("refresh") /\ ~Issued("consent"))
       /\ (chosen /\ valid) =>
             (~Issued("refresh") /\ ~Issued("consent") /\ creds = loaded)
       /\ (chosen /\ refreshable) => (Issued("refresh") /\ ~Issued("consent"))
       /\ (chosen /\ ~valid /\ ~refreshable) =>
             /\ Issued("consent") /\ ~Issued("refresh")
             /\ Succeeded("consent") =>
                   (creds = ConsentCreds /\ tokenFile = WriteToken(creds))

C9_Witness_ConsentForUnrefreshable ==
    /\ decided /\ Done
    /\ loaded.present /\ loaded.expiry = "past" /\ ~loaded.refresh_token
    /\ Succeeded("consent")

\* C10: no remote call is retried: each of list, insert, get, delete and
\* refresh is issued at most once in an invocation, and a failed one is the
\* last remote call of the invocation.
C10_NoRetry ==
    /\ \A op \in RemoteOps : Cardinality(Ops({op})) <= 1
    /\ \A i \in Ops(RemoteOps) : ~calls[i].ok =>
          (\A j \in Ops(RemoteOps) : j <= i)

C10_Witness_ListFailedOnce ==
    Done /\ Failed("list") /\ exc = "none" /\ cmd = "list_upcoming"

====
